---- MODULE Spec2Model ----
(***************************************************************************)
(* Model of the fit-track-goals-app backend: the auth flow                 *)
(* (api/services/authService.js), the User model and the authorization     *)
(* gate (api/models/User.js, api/middlewares/authMiddleware.js) and the    *)
(* goal service (api/services/goalService.js).                             *)
(*                                                                         *)
(* Strings are modelled by the features the code inspects.  A text value   *)
(* is [core, ws, up]: core is the trimmed, lowercased content, ws says     *)
(* that the string carries leading or trailing whitespace, up says that    *)
(* some letter is upper case.  The input alphabet has no '<' character.    *)
(* A password-like value is [core, ws, salts]: the string obtained from    *)
(* the text (core, ws) by hashing it with bcrypt once per element of       *)
(* salts, in order; salts = <<>> is the text itself.  bcrypt.genSalt       *)
(* yields a salt no earlier call has yielded.  The timestamps Mongoose     *)
(* adds to a document are not modelled.                                    *)
(***************************************************************************)
EXTENDS Integers, Sequences, FiniteSets, TLC

VARIABLES
    users,          \* the users collection: the identity records
    seq,            \* number of ObjectIds handed to saved users so far
    reg,            \* per caller: the register call in flight, if any
    issued,         \* the tokens login has signed
    now,            \* the clock
    jwtExpiresIn,   \* process.env.JWT_EXPIRES_IN, in clock units
    goals,          \* the goals collection
    db,             \* api/config/db.js: the cached connection and its callers
    client,         \* the browser: localStorage, AuthContext, requests in flight
    hook,           \* one instance of the useFetch hook
    res             \* the outcome of the last completed call

vars == <<users, seq, reg, issued, now, jwtExpiresIn, goals, db, client, hook, res>>

----------------------------------------------------------------------------
(* Bounds of the model *)
MaxUsers == 2
MaxTime == 1
MaxTokens == 1
MaxGoals == 1

Procs == {1, 2}
Ids == 1..MaxUsers
GoalIds == 1..MaxGoals

----------------------------------------------------------------------------
(* Program constants *)
MinPasswordLen == 8
BcryptHashLen == 60         \* length of the string bcrypt.hash returns
UsernameMinLen == 3
UsernameMaxLen == 50
DefaultTtl == 1             \* the default expiresIn, '1d', in clock units
TitleMaxLen == 100
DescriptionMaxLen == 500

----------------------------------------------------------------------------
(* Text values *)
Txt(core, ws, up) == [core |-> core, ws |-> ws, up |-> up]
Pw(core, ws) == [core |-> core, ws |-> ws, salts |-> <<>>]

(* length of the trimmed content of each string of the input alphabet *)
StrLen(core) ==
    CASE core = "" -> 0
      [] core = "al" -> 2
      [] core = "short" -> 5
      [] core = "alice01" -> 7
      [] core = "bob_02" -> 6
      [] core = "bad name" -> 8
      [] core = "longpass1" -> 9
      [] core = "longpass2" -> 9
      [] core = "a@b.com" -> 7
      [] core = "c@d.com" -> 7
      [] core = "nope" -> 4
      [] core = "run 5k" -> 6
      [] core = "swim" -> 4
      [] core = "weekly" -> 6
      [] OTHER -> 1

(* strings of the input alphabet that have the shape local@domain.tld *)
EmailShaped == {"a@b.com", "c@d.com"}

(* strings of the input alphabet made of letters, digits and underscores *)
WordChars == {"al", "short", "alice01", "bob_02", "longpass1", "longpass2", "nope"}

Front(s) == SubSeq(s, 1, Len(s) - 1)

(* helpers.js sanitizeString: trim, then strip tags (none in the alphabet) *)
sanitizeString(t) == [t EXCEPT !.ws = FALSE]

(* sanitizeString on a password-like value: a bcrypt hash string has no
   whitespace and no tags, so only a plain text is changed *)
sanitizePw(v) == IF v.salts = <<>> THEN [v EXCEPT !.ws = FALSE] ELSE v

(* JS falsiness of a sanitized string: !s || s.trim() === '' *)
IsBlank(t) == t.core = ""

(* helpers.js isValidEmail: no whitespace anywhere, local@domain.tld *)
isValidEmail(t) == ~t.ws /\ t.core \in EmailShaped

(* .length of a password-like value *)
PwLength(v) == IF v.salts = <<>> THEN StrLen(v.core) ELSE BcryptHashLen

(* bcrypt.genSalt(): the k-th salt drawn by the register call that follows
   n saved users *)
genSalt(n, k) == 2 * n + k

(* bcrypt.hash(data, salt) *)
bcryptHash(v, salt) == [v EXCEPT !.salts = Append(v.salts, salt)]

(* bcrypt.compare(data, hash): recompute with the salt embedded in hash *)
bcryptCompare(data, hash) ==
    /\ hash.salts # <<>>
    /\ data = [hash EXCEPT !.salts = Front(hash.salts)]

----------------------------------------------------------------------------
(* Errors.  code = 0 and statusText = "" stand for an absent field. *)
Err(name, message, code, statusText) ==
    [name |-> name, message |-> message, code |-> code, statusText |-> statusText]

NoErr == Err("", "", 0, "")
BadRequest(message) == Err("", message, 400, "Bad Request")
Conflict == BadRequest("User with this email already exists")
InvalidCredentials == Err("", "Invalid login credentials", 404, "Not Found")

(* errors raised by the store and the runtime: not structured *)
DuplicateKey == Err("MongoServerError", "E11000 duplicate key error", 11000, "")
ValidationError == Err("ValidationError", "User validation failed", 0, "")

(* a catch block that reports a validation error of the store as 400 *)
registerCatchValidation400(error) ==
    IF error.message # "" /\ error.code # 0
    THEN error
    ELSE IF error.name = "ValidationError"
    THEN Err("", error.message, 400, "Bad Request")
    ELSE Err("", IF error.message # "" THEN error.message ELSE "Failed to register user",
             500, "Internal Server Error")

(* the catch block of register *)
registerCatch(error) ==
    IF error.message # "" /\ error.code # 0
    THEN error
    ELSE Err("", IF error.message # "" THEN error.message ELSE "Failed to register user",
             500, "Internal Server Error")

(* the catch block of login *)
loginCatch(error) ==
    IF error.message # "" /\ error.code # 0
    THEN error
    ELSE Err("", IF error.message # "" THEN error.message ELSE "Login failed. Please try again.",
             IF error.code # 0 THEN error.code ELSE 500,
             IF error.statusText # "" THEN error.statusText ELSE "Internal Server Error")

----------------------------------------------------------------------------
(* The User schema *)

(* an email path that is trimmed but keeps its case *)
emailSetterTrimOnly(t) == [t EXCEPT !.ws = FALSE]

(* setters of the email path: lowercase and trim; Mongoose runs them on
   documents and on query filters *)
emailSetter(t) == [t EXCEPT !.ws = FALSE, !.up = FALSE]

(* setter of the username path: trim *)
usernameSetter(t) == [t EXCEPT !.ws = FALSE]

(* validators of the schema, run by save() before the pre('save') hook *)
userValidate(doc) ==
    /\ doc.username.core # ""
    /\ StrLen(doc.username.core) >= UsernameMinLen
    /\ StrLen(doc.username.core) <= UsernameMaxLen
    /\ doc.username.core \in WordChars
    /\ doc.email.core \in EmailShaped
    /\ PwLength(doc.password) >= MinPasswordLen

(* pre('save'): a new document always has password modified *)
preSave(doc, salt) == [doc EXCEPT !.password = bcryptHash(doc.password, salt)]

(* a model without the unique index on username *)
uniqueIndexEmailOnly(doc, store) ==
    \A u \in store : u.email # doc.email

(* the unique indexes on username and email *)
uniqueIndexOk(doc, store) ==
    \A u \in store : u.username # doc.username /\ u.email # doc.email

(* a lookup whose filter is compared as submitted, without the setters *)
findOneByEmailNoSetter(email, store) == {u \in store : u.email = email}

(* User.findOne({ email }) *)
findOneByEmail(email, store) == {u \in store : u.email = emailSetter(email)}

(* User.findById(id) *)
findById(id, store) == {u \in store : u.id = id}

(* User.findByCredentials(email, password): the set is empty for null *)
findByCredentials(email, password, store) ==
    {u \in findOneByEmail(email, store) : bcryptCompare(password, u.password)}

----------------------------------------------------------------------------
(* Inputs *)
RegisterInput(username, email, password) ==
    [username |-> username, email |-> email, password |-> password]

(* register calls: a valid one; the same email in another case with another
   username; the same username with another, padded email; a username the
   schema rejects; an empty username; a malformed email and short password;
   an empty email and short password; nothing but whitespace *)
RegisterInputs ==
    {RegisterInput(Txt("alice01", FALSE, FALSE), Txt("a@b.com", FALSE, FALSE), Pw("longpass1", FALSE)),
     RegisterInput(Txt("bob_02", FALSE, FALSE), Txt("a@b.com", FALSE, TRUE), Pw("longpass2", FALSE)),
     RegisterInput(Txt("alice01", FALSE, FALSE), Txt("c@d.com", TRUE, FALSE), Pw("longpass1", TRUE)),
     RegisterInput(Txt("al", FALSE, FALSE), Txt("c@d.com", FALSE, FALSE), Pw("longpass1", FALSE)),
     RegisterInput(Txt("bad name", FALSE, FALSE), Txt("c@d.com", FALSE, FALSE), Pw("longpass1", FALSE)),
     RegisterInput(Txt("", FALSE, FALSE), Txt("a@b.com", FALSE, FALSE), Pw("longpass1", FALSE)),
     RegisterInput(Txt("bob_02", FALSE, FALSE), Txt("nope", FALSE, FALSE), Pw("short", FALSE)),
     RegisterInput(Txt("bob_02", FALSE, FALSE), Txt("", FALSE, FALSE), Pw("short", FALSE)),
     RegisterInput(Txt("", TRUE, FALSE), Txt("", TRUE, FALSE), Pw("", TRUE))}

LoginInput(email, password) == [email |-> email, password |-> password]

(* login calls: the registered text password, a wrong one, a malformed
   email, an empty email, and the bcrypt hash of the registered password as
   the password *)
LoginInputs ==
    {LoginInput(Txt("a@b.com", FALSE, FALSE), Pw("longpass1", FALSE)),
     LoginInput(Txt("a@b.com", FALSE, TRUE), Pw("longpass2", FALSE)),
     LoginInput(Txt("c@d.com", FALSE, FALSE), Pw("longpass1", TRUE)),
     LoginInput(Txt("nope", FALSE, FALSE), Pw("short", FALSE)),
     LoginInput(Txt("", TRUE, FALSE), Pw("short", FALSE))}
    \cup {LoginInput(Txt("a@b.com", FALSE, FALSE),
                     bcryptHash(Pw("longpass1", FALSE), genSalt(n, 1))) : n \in 0..(MaxUsers - 1)}

Idle == [pc |-> "idle"]

NoBody == [none |-> TRUE]

Result(op, in, err, body) ==
    [op |-> op, in |-> in, ok |-> (err = NoErr), err |-> err, body |-> body]

----------------------------------------------------------------------------
(* api/config/db.js: connectDB and the module-level cachedConnection.
   A handle is named by the number of the mongoose.connect call that
   produced the connection it stands for. *)

MaxConns == 3

\* the modules whose top-level code awaits connectDB()
DbCallers == {"Goal", "User"}

\* let cachedConnection = null
NoConnection == 0

DbInit ==
    [cachedConnection |-> NoConnection,
     readyState       |-> "disconnected",
     current          |-> NoConnection,
     attempts         |-> 0,
     established      |-> {},
     listening        |-> FALSE,
     failed           |-> {},
     closing          |-> FALSE,
     exited           |-> FALSE,
     pc               |-> [c \in DbCallers |-> "idle"],
     awaited          |-> [c \in DbCallers |-> NoConnection],
     returned         |-> [c \in DbCallers |-> NoConnection]]

\* mongoose.connect(MONGODB_URI, connectionOptions), up to the promise it
\* returns.  The sources pin no mongoose version: a call made while the
\* default connection is connecting or connected either joins it (joins)
\* or opens a further connection.
mongooseJoins(d, joins) == joins /\ d.readyState \in {"connecting", "connected"}

mongooseConnect(d, c, joins) ==
    IF mongooseJoins(d, joins)
    THEN [d EXCEPT !.awaited[c] = d.current]
    ELSE [d EXCEPT !.attempts = @ + 1,
                   !.current = d.attempts + 1,
                   !.readyState = IF @ = "connected" THEN @ ELSE "connecting",
                   !.awaited[c] = d.attempts + 1]

----------------------------------------------------------------------------
(* The browser side: src/services/auth.js, src/services/api.js,
   src/context/AuthContext.js, src/hooks/useAuth.js *)

MaxPending == 2
MaxLogins == 2

\* localStorage.getItem('token') when nothing is stored
NoToken == 0

\* useState(null) of AuthProvider
NoUser == 0

\* the last thing the browser did: op names it, auth is the Authorization
\* header of a request it sent (NoToken: none), status the status of a
\* response it received, token the token a login response carried
ClientEvent(op, sent, auth, status, token) ==
    [op |-> op, sent |-> sent, auth |-> auth, status |-> status, token |-> token]

\* the Authorization header the request interceptor leaves on a request:
\* `Bearer ${token}` when a token is stored, none otherwise
NoAuthorization == [present |-> FALSE, scheme |-> "", token |-> NoToken]

requestInterceptor(token) ==
    IF token # NoToken
    THEN [present |-> TRUE, scheme |-> "Bearer", token |-> token]
    ELSE NoAuthorization

\* a response interceptor that leaves localStorage alone
responseInterceptorKeepsToken(status, token) == token

\* the response interceptor: what localStorage holds after a response
responseInterceptor(status, token) ==
    IF status = 401 THEN NoToken ELSE token

\* the exports of src/context/AuthContext.js
AuthContextExports == {"AuthProvider", "useAuth"}

\* hooks/useAuth.js imports { AuthContext } from '../context/AuthContext',
\* which has no such export: useContext(undefined) throws when a component
\* calls the hook.
useAuthThrows == "AuthContext" \notin AuthContextExports

ClientInit ==
    [token           |-> NoToken,
     user            |-> NoUser,
     isAuthenticated |-> FALSE,
     pending         |-> {},
     logins          |-> 0,
     last            |-> ClientEvent("none", FALSE, NoAuthorization, 0, NoToken)]

(* src/hooks/useFetch.js *)

MaxFetches == 2

\* the urls a component passes; "" is the one the hook refuses
Urls == {"/a", "/b"}
UrlProps == Urls \union {""}

\* what get(url) resolves to: the body of the response to url, an object
\* (truthy) or an empty body (falsy)
Payload(url, truthy) == [of |-> url, truthy |-> truthy, none |-> FALSE]

\* null, and a url that is not a key of the cache
NoData == [of |-> "", truthy |-> FALSE, none |-> TRUE]

\* the error a failed get(url) rejects with
FetchError(url) == [of |-> url, code |-> 500, none |-> FALSE]
InvalidUrlError == [of |-> "", code |-> 400, none |-> FALSE]
NoFetchError == [of |-> "", code |-> 0, none |-> TRUE]

HookEvent(op, url) == [op |-> op, url |-> url]

\* useState(null), useState(true), useState(null), useRef({}), before the
\* first effect has run
HookInit ==
    [mounted  |-> FALSE,
     url      |-> "",
     data     |-> NoData,
     loading  |-> TRUE,
     error    |-> NoFetchError,
     cache    |-> [u \in Urls |-> NoData],
     inflight |-> [u \in Urls |-> 0],
     last     |-> HookEvent("none", "")]

\* if (cache.current[url]): the lookup tests the stored value for truthiness
cacheHit(cache, url) == ~cache[url].none /\ cache[url].truthy

\* the effect of useFetch, run for url, up to the call of get(url)
fetchEffect(h, url) ==
    LET cleared == [h EXCEPT !.mounted = TRUE, !.url = url, !.error = NoFetchError,
                             !.last = HookEvent("effect", url)]
    IN  IF url = ""
        THEN [cleared EXCEPT !.error = InvalidUrlError, !.loading = FALSE]
        ELSE IF cacheHit(h.cache, url)
        THEN [cleared EXCEPT !.data = h.cache[url], !.loading = FALSE]
        ELSE [cleared EXCEPT !.loading = TRUE, !.inflight[url] = @ + 1]

\* the continuation of fetchData after the await, for the request to url
fetchSettle(h, url, ok, truthy) ==
    IF ok
    THEN [h EXCEPT !.data = Payload(url, truthy),
                   !.cache[url] = Payload(url, truthy),
                   !.loading = FALSE,
                   !.inflight[url] = @ - 1,
                   !.last = HookEvent("settled", url)]
    ELSE [h EXCEPT !.error = FetchError(url),
                   !.loading = FALSE,
                   !.inflight[url] = @ - 1,
                   !.last = HookEvent("failed", url)]

----------------------------------------------------------------------------
Init ==
    /\ users = {}
    /\ seq = 0
    /\ reg = [p \in Procs |-> Idle]
    /\ issued = {}
    /\ now = 0
    /\ jwtExpiresIn \in {0, DefaultTtl}
    /\ goals = {}
    /\ db = DbInit
    /\ client = ClientInit
    /\ hook = HookInit
    /\ res = Result("none", NoBody, NoErr, NoBody)

----------------------------------------------------------------------------
(* register, up to and including the findOne pre-check *)

(* validations that look at the password before the email *)
registerValidatePasswordFirst(username, email, password) ==
    IF IsBlank(username) THEN BadRequest("Username is required")
    ELSE IF PwLength(password) < MinPasswordLen
         THEN BadRequest("Password must be at least 8 characters long")
    ELSE IF IsBlank(email) THEN BadRequest("Email is required")
    ELSE IF ~isValidEmail(email) THEN BadRequest("Invalid email format")
    ELSE NoErr

(* the input validations of register: the error thrown, or NoErr *)
registerValidate(username, email, password) ==
    IF IsBlank(username) THEN BadRequest("Username is required")
    ELSE IF IsBlank(email) THEN BadRequest("Email is required")
    ELSE IF ~isValidEmail(email) THEN BadRequest("Invalid email format")
    ELSE IF PwLength(password) < MinPasswordLen
         THEN BadRequest("Password must be at least 8 characters long")
    ELSE NoErr

RegisterCheck(p, in) ==
    LET su == sanitizeString(in.username)
        se == sanitizeString(in.email)
        sp == sanitizePw(in.password)
        verr == registerValidate(su, se, sp)
    IN  /\ reg[p].pc = "idle"
        /\ IF verr # NoErr
           THEN /\ res' = Result("register", in, verr, NoBody)
                /\ UNCHANGED reg
           ELSE IF findOneByEmail(se, users) # {}
           THEN /\ res' = Result("register", in, registerCatch(Conflict), NoBody)
                /\ UNCHANGED reg
           ELSE /\ reg' = [reg EXCEPT ![p] =
                              [pc |-> "save", in |-> in]]
                /\ UNCHANGED res
        /\ UNCHANGED <<users, seq, issued, now, jwtExpiresIn, db, client, hook, goals>>

(* new User({...}): the setters of the schema run on construction *)
newUser(id, username, email, password) ==
    [id |-> id, username |-> usernameSetter(username), email |-> emailSetter(email),
     password |-> password]

(* returning the saved document itself *)
publicIdentityWithPassword(u) == u

(* the value register returns, and the user object login returns *)
publicIdentity(u) ==
    [username |-> u.username, email |-> u.email, id |-> u.id]

(* register, from bcrypt.genSalt to the return or the catch block *)
RegisterSave(p) ==
    LET in == reg[p].in
        hashedPassword == bcryptHash(sanitizePw(in.password), genSalt(seq, 1))
        doc == newUser(seq + 1, sanitizeString(in.username), sanitizeString(in.email),
                       hashedPassword)
        saved == preSave(doc, genSalt(seq, 2))
    IN  /\ reg[p].pc = "save"
        /\ reg' = [reg EXCEPT ![p] = Idle]
        /\ IF ~userValidate(doc)
           THEN /\ res' = Result("register", in, registerCatch(ValidationError), NoBody)
                /\ UNCHANGED <<users, seq>>
           ELSE IF ~uniqueIndexOk(saved, users)
           THEN /\ res' = Result("register", in, registerCatch(DuplicateKey), NoBody)
                /\ UNCHANGED <<users, seq>>
           ELSE /\ seq < MaxUsers
                /\ users' = users \cup {saved}
                /\ seq' = seq + 1
                /\ res' = Result("register", in, NoErr, publicIdentity(saved))
        /\ UNCHANGED <<issued, now, jwtExpiresIn, db, client, hook, goals>>

----------------------------------------------------------------------------
(* login *)

loginValidate(email, password) ==
    IF IsBlank(email) THEN BadRequest("Email is required")
    ELSE IF ~isValidEmail(email) THEN BadRequest("Invalid email format")
    ELSE IF PwLength(password) < MinPasswordLen
         THEN BadRequest("Password must be at least 8 characters long")
    ELSE NoErr

(* a lookup that tells an unknown email from a password mismatch *)
loginLookupErrorDistinct(email, password, store) ==
    IF findOneByEmail(email, store) = {} THEN Err("", "User not found", 404, "Not Found")
    ELSE IF findByCredentials(email, password, store) = {}
    THEN Err("", "Invalid password", 401, "Unauthorized")
    ELSE NoErr

(* const user = await User.findByCredentials(...); if (!user) throw {...} *)
loginLookupError(email, password, store) ==
    IF findByCredentials(email, password, store) = {} THEN InvalidCredentials ELSE NoErr

(* jwt.sign({ userId, email }, JWT_SECRET, { expiresIn }) *)
jwtSign(userId, email, t, ttl) ==
    [kind |-> "jwt", sig |-> TRUE, userId |-> userId, email |-> email, exp |-> t + ttl]

(* a login that saves the record it found, so that pre('save') hashes the
   stored password once more *)
LoginSavingRecord(in) ==
    LET se == sanitizeString(in.email)
        sp == sanitizePw(in.password)
        found == findByCredentials(se, sp, users)
    IN  /\ loginValidate(se, sp) = NoErr
        /\ found # {}
        /\ LET user == CHOOSE u \in found : TRUE
               token == jwtSign(user.id, user.email, now, jwtExpiresIn)
           IN  /\ Cardinality(issued \cup {token}) <= MaxTokens
               /\ issued' = issued \cup {token}
               /\ users' = (users \ {user}) \cup {preSave(user, genSalt(seq, 1))}
               /\ res' = Result("login", in, NoErr,
                                [message |-> "Login successful", token |-> token,
                                 user |-> publicIdentity(user)])
        /\ UNCHANGED <<seq, reg, now, jwtExpiresIn, db, client, hook, goals>>

Login(in) ==
    LET se == sanitizeString(in.email)
        sp == sanitizePw(in.password)
        verr == loginValidate(se, sp)
        found == findByCredentials(se, sp, users)
    IN  /\ IF verr # NoErr
           THEN /\ res' = Result("login", in, verr, NoBody)
                /\ UNCHANGED issued
           ELSE IF loginLookupError(se, sp, users) # NoErr
           THEN /\ res' = Result("login", in, loginCatch(loginLookupError(se, sp, users)), NoBody)
                /\ UNCHANGED issued
           ELSE LET user == CHOOSE u \in found : TRUE
                    token == jwtSign(user.id, user.email, now, jwtExpiresIn)
                IN  /\ Cardinality(issued \cup {token}) <= MaxTokens
                    /\ issued' = issued \cup {token}
                    /\ res' = Result("login", in, NoErr,
                                     [message |-> "Login successful", token |-> token,
                                      user |-> publicIdentity(user)])
        /\ UNCHANGED <<users, seq, reg, now, jwtExpiresIn, db, client, hook, goals>>

(* the catch block of the controllers: the response sent for an error *)
errorResponse(error, fallback) ==
    [status |-> IF error.code # 0 THEN error.code ELSE 500,
     message |-> IF error.message # "" THEN error.message ELSE fallback,
     code |-> IF error.code # 0 THEN error.code ELSE 500,
     statusText |-> IF error.statusText # "" THEN error.statusText
                    ELSE "Internal Server Error"]

----------------------------------------------------------------------------
(* The helper authMiddleware.js, goalService.js and goalController.js import *)

(* the export list of src/utils/helpers.js *)
HelperExports ==
    {"isValidEmail", "formatDate", "truncateString", "sanitizeString", "generateRandomString"}

(* import { isValidObjectId } from '../../src/utils/helpers': helpers.js has
   no such export.  The name is bound to undefined and the call throws.  (A
   loader that links strictly refuses to load the importing module instead;
   then no function of that module ever runs, and the behaviours are those
   of this model in which the actions of that module are never taken.) *)
isValidObjectIdThrows == "isValidObjectId" \notin HelperExports

TypeError == Err("TypeError", "isValidObjectId is not a function", 0, "")

----------------------------------------------------------------------------
(* The authorization gate *)

NoEmail == Txt("", FALSE, FALSE)

(* the second part of "Bearer " *)
EmptyToken == [kind |-> "empty", sig |-> FALSE, userId |-> 0, email |-> NoEmail, exp |-> 0]

(* a string that is not a JWT *)
GarbageToken == [kind |-> "garbage", sig |-> FALSE, userId |-> 0, email |-> NoEmail, exp |-> 0]

(* a token with one character of its signature segment changed *)
Tamper(token) == [token EXCEPT !.sig = FALSE]

(* a request's Authorization header: parts is the number of pieces
   split(' ') yields, scheme the first piece, token the second *)
Header(scheme, parts, token) ==
    [present |-> TRUE, scheme |-> scheme, parts |-> parts, token |-> token]

NoHeader == [present |-> FALSE, scheme |-> "", parts |-> 0, token |-> EmptyToken]

(* the headers a client can send: it holds the tokens login issued, and
   cannot sign *)
GateHeaders ==
    {NoHeader, Header("Basic", 2, GarbageToken), Header("Bearer", 1, EmptyToken),
     Header("Bearer", 2, EmptyToken), Header("Bearer", 2, GarbageToken)}
    \cup {Header("Bearer", 2, t) : t \in issued}
    \cup {Header("Bearer", 3, t) : t \in issued}
    \cup {Header("Bearer", 2, Tamper(t)) : t \in issued}

Unauthorized(message) == Err("", message, 401, "Unauthorized")

(* a verifier that lets a token live through the instant of its expiry *)
jwtVerifyLateExpiry(token, t) ==
    IF token.kind # "jwt" THEN Err("JsonWebTokenError", "jwt malformed", 0, "")
    ELSE IF ~token.sig THEN Err("JsonWebTokenError", "invalid signature", 0, "")
    ELSE IF t > token.exp THEN Err("TokenExpiredError", "jwt expired", 0, "")
    ELSE NoErr

(* jwt.verify(token, JWT_SECRET): the error thrown, or NoErr *)
jwtVerify(token, t) ==
    IF token.kind # "jwt" THEN Err("JsonWebTokenError", "jwt malformed", 0, "")
    ELSE IF ~token.sig THEN Err("JsonWebTokenError", "invalid signature", 0, "")
    ELSE IF t >= token.exp THEN Err("TokenExpiredError", "jwt expired", 0, "")
    ELSE NoErr

(* a catch block that answers an unexpected error with 500 *)
authenticateCatchInternal(error) ==
    IF error.name = "TokenExpiredError"
    THEN Unauthorized("Authentication failed: Token Expired")
    ELSE IF error.name = "JsonWebTokenError"
    THEN Unauthorized(error.message)
    ELSE Err("", error.message, 500, "Internal Server Error")

(* the catch block of authenticate *)
authenticateCatch(error) ==
    IF error.name = "TokenExpiredError"
    THEN Unauthorized("Authentication failed: Token Expired")
    ELSE Unauthorized(IF error.message # "" THEN error.message
                      ELSE "Authentication failed: Invalid token")

(* a response sent without return, so that next() is reached as well *)
RejectedFallsThrough(err) == [next |-> TRUE, err |-> err, user |-> NoBody]

(* return res.status(401).json({...}) *)
Rejected(err) == [next |-> FALSE, err |-> err, user |-> NoBody]

(* authenticate(req, res, next): next says whether next() was called, err is
   the response sent otherwise, user is req.user *)
authenticate(header, t, store) ==
    IF ~header.present
    THEN Rejected(Unauthorized("Authentication failed: No token provided"))
    ELSE IF header.parts # 2 \/ header.scheme # "Bearer"
    THEN Rejected(Unauthorized("Authentication failed: Invalid token format"))
    ELSE IF header.token.kind = "empty"
    THEN Rejected(Unauthorized("Authentication failed: Token is empty"))
    ELSE IF jwtVerify(header.token, t) # NoErr
    THEN Rejected(authenticateCatch(jwtVerify(header.token, t)))
    ELSE IF header.token.userId = 0
    THEN Rejected(Unauthorized("Authentication failed: Invalid token payload"))
    ELSE IF isValidObjectIdThrows
    THEN Rejected(authenticateCatch(TypeError))
    ELSE IF findById(header.token.userId, store) = {}
    THEN Rejected(Unauthorized("Authentication failed: User not found"))
    ELSE LET user == CHOOSE u \in findById(header.token.userId, store) : TRUE
         IN  [next |-> TRUE, err |-> NoErr,
              user |-> [userId |-> user.id, email |-> user.email]]

Authenticate(header) ==
    LET out == authenticate(header, now, users)
    IN  /\ res' = Result("authenticate", header, out.err, out)
        /\ UNCHANGED <<users, seq, reg, issued, now, jwtExpiresIn, db, client, hook, goals>>

----------------------------------------------------------------------------
(* The goal service.  A goalId or userId of 0 stands for an empty string.  *)
(* A targetDate is 0 when not provided, -1 when it does not parse as a     *)
(* date, and otherwise the clock value of the date.                        *)

NotFound(message) == Err("", message, 404, "Not Found")

Num(v) == [isNumber |-> TRUE, val |-> v]
Undefined == [isNumber |-> FALSE, val |-> 0]

(* the validators of the Goal schema, run by save() *)
goalValidate(g, t) ==
    /\ g.title.core # ""
    /\ StrLen(g.title.core) <= TitleMaxLen
    /\ StrLen(g.description.core) <= DescriptionMaxLen
    /\ g.targetDate > t
    /\ g.progress >= 0 /\ g.progress <= 100

(* Goal.findOne({ _id: goalId, userId: userId }) *)
findGoal(goalId, userId, store) == {g \in store : g.id = goalId /\ g.userId = userId}

(* the catch block of the goal services *)
goalCatch(error, fallback) ==
    IF error.message # "" /\ error.code # 0
    THEN error
    ELSE Err("", fallback, 500, "Internal Server Error")

(* if (!id || !isValidObjectId(id)) throw {...}: the error thrown, or NoErr *)
objectIdCheck(id, message) ==
    IF id = 0 THEN BadRequest(message)
    ELSE IF isValidObjectIdThrows THEN TypeError
    ELSE NoErr

Outcome(err, body, store) == [err |-> err, body |-> body, store |-> store]

(* the checks of targetDate shared by createGoal and updateGoal *)
targetDateCheck(targetDate, t) ==
    IF targetDate = -1 THEN BadRequest("Invalid target date format")
    ELSE IF targetDate <= t THEN BadRequest("Target date must be in the future")
    ELSE NoErr

progressCheck(progress) ==
    IF ~progress.isNumber \/ progress.val < 0 \/ progress.val > 100
    THEN BadRequest("Progress must be a number between 0 and 100")
    ELSE NoErr

(* createGoal(userId, title, description, targetDate, progress) *)
createGoal(in, t, userStore, store) ==
    LET title == sanitizeString(in.title)
        description == sanitizeString(in.description)
        newGoal == [id |-> Cardinality(store) + 1, userId |-> in.userId, title |-> title,
                    description |-> description, targetDate |-> in.targetDate,
                    progress |-> in.progress.val]
    IN  IF objectIdCheck(in.userId, "Invalid userId provided") # NoErr
        THEN Outcome(objectIdCheck(in.userId, "Invalid userId provided"), NoBody, store)
        ELSE IF IsBlank(title)
        THEN Outcome(BadRequest("Goal title is required"), NoBody, store)
        ELSE IF StrLen(title.core) > TitleMaxLen
        THEN Outcome(BadRequest("Goal title must be less than 100 characters long"), NoBody, store)
        ELSE IF ~IsBlank(description) /\ StrLen(description.core) > DescriptionMaxLen
        THEN Outcome(BadRequest("Goal description must be less than 500 characters long"),
                     NoBody, store)
        ELSE IF in.targetDate = 0
        THEN Outcome(BadRequest("Target date is required"), NoBody, store)
        ELSE IF targetDateCheck(in.targetDate, t) # NoErr
        THEN Outcome(targetDateCheck(in.targetDate, t), NoBody, store)
        ELSE IF progressCheck(in.progress) # NoErr
        THEN Outcome(progressCheck(in.progress), NoBody, store)
        ELSE IF findById(in.userId, userStore) = {}
        THEN Outcome(goalCatch(NotFound("User not found"), "Failed to create goal"),
                     NoBody, store)
        ELSE IF ~goalValidate(newGoal, t)
        THEN Outcome(goalCatch(ValidationError, "Failed to create goal"), NoBody, store)
        ELSE Outcome(NoErr, newGoal, store \cup {newGoal})

(* getGoal(goalId, userId) *)
getGoal(in, userStore, store) ==
    IF objectIdCheck(in.goalId, "Invalid goalId provided") # NoErr
    THEN Outcome(objectIdCheck(in.goalId, "Invalid goalId provided"), NoBody, store)
    ELSE IF objectIdCheck(in.userId, "Invalid userId provided") # NoErr
    THEN Outcome(objectIdCheck(in.userId, "Invalid userId provided"), NoBody, store)
    ELSE IF findById(in.userId, userStore) = {}
    THEN Outcome(goalCatch(NotFound("User not found"), "Failed to retrieve goal"),
                 NoBody, store)
    ELSE IF findGoal(in.goalId, in.userId, store) = {}
    THEN Outcome(goalCatch(NotFound("Goal not found"), "Failed to retrieve goal"),
                 NoBody, store)
    ELSE Outcome(NoErr, CHOOSE g \in findGoal(in.goalId, in.userId, store) : TRUE, store)

(* the assignments of updateGoal: a falsy argument leaves the field alone *)
applyUpdate(goal, title, description, targetDate, progress) ==
    [goal EXCEPT !.title = IF ~IsBlank(title) THEN title ELSE @,
                 !.description = IF ~IsBlank(description) THEN description ELSE @,
                 !.targetDate = IF targetDate # 0 THEN targetDate ELSE @,
                 !.progress = IF progress.val # 0 THEN progress.val ELSE @]

(* updateGoal(goalId, userId, title, description, targetDate, progress) *)
updateGoal(in, t, userStore, store) ==
    LET title == sanitizeString(in.title)
        description == sanitizeString(in.description)
        found == findGoal(in.goalId, in.userId, store)
        goal == CHOOSE g \in found : TRUE
        updated == applyUpdate(goal, title, description, in.targetDate, in.progress)
    IN  IF objectIdCheck(in.goalId, "Invalid goalId provided") # NoErr
        THEN Outcome(objectIdCheck(in.goalId, "Invalid goalId provided"), NoBody, store)
        ELSE IF objectIdCheck(in.userId, "Invalid userId provided") # NoErr
        THEN Outcome(objectIdCheck(in.userId, "Invalid userId provided"), NoBody, store)
        ELSE IF ~IsBlank(title) /\ StrLen(title.core) > TitleMaxLen
        THEN Outcome(BadRequest("Goal title must be less than 100 characters long"), NoBody, store)
        ELSE IF ~IsBlank(description) /\ StrLen(description.core) > DescriptionMaxLen
        THEN Outcome(BadRequest("Goal description must be less than 500 characters long"),
                     NoBody, store)
        ELSE IF in.targetDate # 0 /\ targetDateCheck(in.targetDate, t) # NoErr
        THEN Outcome(targetDateCheck(in.targetDate, t), NoBody, store)
        ELSE IF progressCheck(in.progress) # NoErr
        THEN Outcome(progressCheck(in.progress), NoBody, store)
        ELSE IF findById(in.userId, userStore) = {}
        THEN Outcome(goalCatch(NotFound("User not found"), "Failed to update goal"),
                     NoBody, store)
        ELSE IF found = {}
        THEN Outcome(goalCatch(NotFound("Goal not found"), "Failed to update goal"),
                     NoBody, store)
        ELSE IF ~goalValidate(updated, t)
        THEN Outcome(goalCatch(ValidationError, "Failed to update goal"), NoBody, store)
        ELSE Outcome(NoErr, updated, (store \ {goal}) \cup {updated})

(* deleteGoal(goalId, userId) *)
deleteGoal(in, userStore, store) ==
    IF objectIdCheck(in.goalId, "Invalid goalId provided") # NoErr
    THEN Outcome(objectIdCheck(in.goalId, "Invalid goalId provided"), NoBody, store)
    ELSE IF objectIdCheck(in.userId, "Invalid userId provided") # NoErr
    THEN Outcome(objectIdCheck(in.userId, "Invalid userId provided"), NoBody, store)
    ELSE IF findById(in.userId, userStore) = {}
    THEN Outcome(goalCatch(NotFound("User not found"), "Failed to delete goal"),
                 NoBody, store)
    ELSE IF findGoal(in.goalId, in.userId, store) = {}
    THEN Outcome(goalCatch(NotFound("Goal not found"), "Failed to delete goal"),
                 NoBody, store)
    ELSE Outcome(NoErr, [message |-> "Goal deleted successfully"],
                 store \ findGoal(in.goalId, in.userId, store))

NoText == Txt("", FALSE, FALSE)

GoalFields(title, description, targetDate, progress) ==
    [title |-> title, description |-> description, targetDate |-> targetDate,
     progress |-> progress]

(* the goal fields a call may carry: all four valid; progress alone;
   a title alone; progress 0; progress above 100 *)
CompleteFields ==
    GoalFields(Txt("run 5k", FALSE, FALSE), Txt("weekly", FALSE, FALSE), MaxTime + 1, Num(50))

FieldInputs ==
    {CompleteFields,
     GoalFields(NoText, NoText, 0, Num(100)),
     GoalFields(Txt("swim", TRUE, FALSE), NoText, 0, Undefined),
     GoalFields(NoText, NoText, 0, Num(0)),
     GoalFields(Txt("run 5k", FALSE, FALSE), Txt("weekly", FALSE, FALSE), MaxTime + 1, Num(101))}

GoalCall(goalId, userId) == [goalId |-> goalId, userId |-> userId]
(* calls with well-formed ids, one with an empty goalId, one with an empty userId *)
GoalCalls == {GoalCall(g, u) : g \in GoalIds, u \in Ids} \cup {GoalCall(0, 1), GoalCall(1, 0)}

CreateCall(userId, f) == [userId |-> userId] @@ f
(* every field input for user 1, and the complete one for every user *)
CreateCalls ==
    {CreateCall(1, f) : f \in FieldInputs} \cup {CreateCall(u, CompleteFields) : u \in Ids}

UpdateCall(goalId, userId, f) == GoalCall(goalId, userId) @@ f
(* every field input for goal 1 and user 1, the complete one for every pair *)
UpdateCalls ==
    {UpdateCall(1, 1, f) : f \in FieldInputs}
    \cup {UpdateCall(g, u, CompleteFields) : g \in GoalIds, u \in Ids}

GoalService(op, in, out) ==
    /\ goals' = out.store
    /\ res' = Result(op, in, out.err, out.body)
    /\ UNCHANGED <<users, seq, reg, issued, now, jwtExpiresIn, db, client, hook>>

CreateGoal(in) == GoalService("createGoal", in, createGoal(in, now, users, goals))
GetGoal(in) == GoalService("getGoal", in, getGoal(in, users, goals))
UpdateGoal(in) == GoalService("updateGoal", in, updateGoal(in, now, users, goals))
DeleteGoal(in) == GoalService("deleteGoal", in, deleteGoal(in, users, goals))

----------------------------------------------------------------------------
Tick ==
    /\ now < MaxTime
    /\ now' = now + 1
    /\ UNCHANGED <<users, seq, reg, issued, jwtExpiresIn, db, client, hook, goals, res>>

Next ==
    \/ \E p \in Procs, in \in RegisterInputs : RegisterCheck(p, in)
    \/ \E p \in Procs : RegisterSave(p)
    \/ \E in \in LoginInputs : Login(in)
    \/ \E header \in GateHeaders : Authenticate(header)
    \/ \E in \in CreateCalls : CreateGoal(in)
    \/ \E in \in GoalCalls : GetGoal(in)
    \/ \E in \in UpdateCalls : UpdateGoal(in)
    \/ \E in \in GoalCalls : DeleteGoal(in)
    \/ Tick

Spec == Init /\ [][Next]_vars

----------------------------------------------------------------------------
(* The store is a MongoDB database that other clients can write as well.   *)

(* a document of the users collection is deleted out of band *)
StoreRemoveUser(u) ==
    /\ u \in users
    /\ users' = users \ {u}
    /\ UNCHANGED <<seq, reg, issued, now, jwtExpiresIn, db, client, hook, goals, res>>

(* a document is inserted into the goals collection out of band *)
StoreInsertGoal(owner) ==
    /\ Cardinality(goals) < MaxGoals
    /\ goals' = goals \cup
          {[id |-> Cardinality(goals) + 1, userId |-> owner, title |-> Txt("run 5k", FALSE, FALSE),
            description |-> Txt("weekly", FALSE, FALSE), targetDate |-> MaxTime + 1,
            progress |-> 50]}
    /\ UNCHANGED <<users, seq, reg, issued, now, jwtExpiresIn, db, client, hook, res>>

(* one caller at a time, and the out-of-band writes *)
NextOps ==
    \/ \E in \in RegisterInputs : RegisterCheck(1, in)
    \/ RegisterSave(1)
    \/ \E in \in LoginInputs : Login(in)
    \/ \E header \in GateHeaders : Authenticate(header)
    \/ \E in \in GoalCalls : GetGoal(in)
    \/ \E in \in UpdateCalls : UpdateGoal(in)
    \/ \E in \in GoalCalls : DeleteGoal(in)
    \/ Tick
    \/ \E u \in users : StoreRemoveUser(u)
    \/ \E owner \in Ids : StoreInsertGoal(owner)

SpecOps == Init /\ [][NextOps]_vars

----------------------------------------------------------------------------
(* api/config/db.js: the steps of connectDB and of the 'error' listener *)

\* connectDB from its call to the cached return or to the await
ConnectDB(c) ==
    /\ ~db.exited
    /\ db.pc[c] = "idle"
    /\ IF db.cachedConnection # NoConnection
          THEN db' = [db EXCEPT !.returned[c] = db.cachedConnection]
          ELSE \E joins \in BOOLEAN :
                /\ mongooseJoins(db, joins) \/ db.attempts < MaxConns
                /\ db' = [mongooseConnect(db, c, joins) EXCEPT !.pc[c] = "awaiting"]
    /\ UNCHANGED <<users, seq, reg, issued, now, jwtExpiresIn, client, hook, goals, res>>

\* the awaited connect resolves: cache, register the listener, return
ConnectResolve(c) ==
    /\ ~db.exited
    /\ db.pc[c] = "awaiting"
    /\ db' = [db EXCEPT !.established = @ \union {db.awaited[c]},
                        !.readyState = "connected",
                        !.cachedConnection = db.awaited[c],
                        !.listening = TRUE,
                        !.returned[c] = db.awaited[c],
                        !.pc[c] = "idle"]
    /\ UNCHANGED <<users, seq, reg, issued, now, jwtExpiresIn, client, hook, goals, res>>

\* the awaited connect rejects: the catch block
ConnectReject(c) ==
    /\ ~db.exited
    /\ db.pc[c] = "awaiting"
    /\ db.awaited[c] \notin db.established
    /\ db' = [db EXCEPT !.cachedConnection = NoConnection,
                        !.exited = TRUE]
    /\ UNCHANGED <<users, seq, reg, issued, now, jwtExpiresIn, client, hook, goals, res>>

\* mongoose.connection emits 'error': the listener calls close(callback)
ConnectionError ==
    /\ ~db.exited
    /\ db.readyState = "connected"
    /\ db.listening
    /\ ~db.closing
    /\ db' = [db EXCEPT !.failed = @ \union {db.cachedConnection},
                        !.closing = TRUE]
    /\ UNCHANGED <<users, seq, reg, issued, now, jwtExpiresIn, client, hook, goals, res>>

\* the close callback runs
CloseCallback ==
    /\ ~db.exited
    /\ db.closing
    /\ db' = [db EXCEPT !.closing = FALSE,
                        !.readyState = "disconnected",
                        !.cachedConnection = NoConnection]
    /\ UNCHANGED <<users, seq, reg, issued, now, jwtExpiresIn, client, hook, goals, res>>

NextDB ==
    \/ \E c \in DbCallers : ConnectDB(c)
    \/ \E c \in DbCallers : ConnectResolve(c)
    \/ \E c \in DbCallers : ConnectReject(c)
    \/ ConnectionError
    \/ CloseCallback

SpecDB == Init /\ [][NextDB]_vars

----------------------------------------------------------------------------
(* The browser side: the calls of src/services/auth.js and src/services/api.js,
   the responses, and the useAuth hook *)

\* what a form hands to login: whether email and password are filled in
LoginForms == {[email |-> TRUE, password |-> TRUE], [email |-> FALSE, password |-> TRUE]}

\* the responses a request can get: a status and, for 200, a body
Responses ==
    {[status |-> 200, token |-> TRUE, user |-> 1],
     [status |-> 200, token |-> FALSE, user |-> NoUser],
     [status |-> 401, token |-> FALSE, user |-> NoUser],
     [status |-> 500, token |-> FALSE, user |-> NoUser]}

\* api.request(...): the request interceptor runs and the request leaves
apiCall(c, kind, viaHook) ==
    [c EXCEPT !.pending = @ \union {[kind |-> kind,
                                     authorization |-> requestInterceptor(c.token),
                                     hook |-> viaHook]},
              !.last = ClientEvent("send", TRUE, requestInterceptor(c.token), 0, NoToken)]

\* login(user) of services/auth.js up to the await
authLogin(c, user, viaHook) ==
    IF ~user.email \/ ~user.password
    THEN [c EXCEPT !.last = ClientEvent("loginRejected", FALSE, NoAuthorization, 400, NoToken)]
    ELSE apiCall(c, "login", viaHook)

\* logout() of services/auth.js
authLogout(c) ==
    [c EXCEPT !.token = NoToken,
              !.last = ClientEvent("logout", FALSE, NoAuthorization, 0, NoToken)]

\* a response arrives: the response interceptor, then the continuation of
\* the call that awaited it
receive(c, r, resp) ==
    IF resp.status = 401
    THEN \* localStorage.removeItem('token'); window.location.href = '/'
         [c EXCEPT !.token = responseInterceptor(resp.status, c.token),
                   !.user = NoUser,
                   !.isAuthenticated = FALSE,
                   !.pending = {},
                   !.last = ClientEvent("response", FALSE, r.authorization, 401, NoToken)]
    ELSE IF resp.status = 200 /\ r.kind = "login" /\ resp.token
    THEN \* localStorage.setItem('token', response.token); the hook's setUser
         [c EXCEPT !.token = c.logins + 1,
                   !.logins = @ + 1,
                   !.user = IF r.hook /\ resp.user # NoUser THEN resp.user ELSE @,
                   !.pending = @ \ {r},
                   !.last = ClientEvent("loginSuccess", FALSE, r.authorization, 200,
                                        c.logins + 1)]
    ELSE [c EXCEPT !.token = responseInterceptor(resp.status, c.token),
                   !.pending = @ \ {r},
                   !.last = ClientEvent("response", FALSE, r.authorization,
                                        resp.status, NoToken)]

ClientLogin(user) ==
    /\ Cardinality(client.pending) < MaxPending
    /\ client' = authLogin(client, user, FALSE)
    /\ UNCHANGED <<users, seq, reg, issued, now, jwtExpiresIn, goals, db, hook, res>>

ClientRequest ==
    /\ Cardinality(client.pending) < MaxPending
    /\ client' = apiCall(client, "api", FALSE)
    /\ UNCHANGED <<users, seq, reg, issued, now, jwtExpiresIn, goals, db, hook, res>>

ClientLogout ==
    /\ client' = authLogout(client)
    /\ UNCHANGED <<users, seq, reg, issued, now, jwtExpiresIn, goals, db, hook, res>>

ClientResponse(r, resp) ==
    /\ r \in client.pending
    /\ (resp.status = 200 /\ r.kind = "login" /\ resp.token) => client.logins < MaxLogins
    /\ client' = receive(client, r, resp)
    /\ UNCHANGED <<users, seq, reg, issued, now, jwtExpiresIn, goals, db, hook, res>>

\* a component calls useAuth() and then the login it returns
HookLogin(user) ==
    /\ Cardinality(client.pending) < MaxPending
    /\ client' = IF useAuthThrows
                 THEN [client EXCEPT !.last = ClientEvent("useAuthError", FALSE,
                                                         NoAuthorization, 0, NoToken)]
                 ELSE authLogin(client, user, TRUE)
    /\ UNCHANGED <<users, seq, reg, issued, now, jwtExpiresIn, goals, db, hook, res>>

\* a component calls useAuth() and then the logout it returns
HookLogout ==
    /\ client' = IF useAuthThrows
                 THEN [client EXCEPT !.last = ClientEvent("useAuthError", FALSE,
                                                         NoAuthorization, 0, NoToken)]
                 ELSE [authLogout(client) EXCEPT !.user = NoUser,
                                                 !.isAuthenticated = FALSE]
    /\ UNCHANGED <<users, seq, reg, issued, now, jwtExpiresIn, goals, db, hook, res>>

NextClient ==
    \/ \E user \in LoginForms : ClientLogin(user)
    \/ ClientRequest
    \/ ClientLogout
    \/ \E r \in client.pending, resp \in Responses : ClientResponse(r, resp)
    \/ \E user \in LoginForms : HookLogin(user)
    \/ HookLogout

SpecClient == Init /\ [][NextClient]_vars

----------------------------------------------------------------------------
(* src/hooks/useFetch.js: the effect and the settling of a request *)

\* the component renders with url: first mount, or the url prop changed
UseFetch(url) ==
    /\ ~hook.mounted \/ url # hook.url
    /\ (url # "" /\ ~cacheHit(hook.cache, url)) => hook.inflight[url] < MaxFetches
    /\ hook' = fetchEffect(hook, url)
    /\ UNCHANGED <<users, seq, reg, issued, now, jwtExpiresIn, goals, db, client, res>>

\* the request to url resolves or rejects
FetchSettle(url, ok, truthy) ==
    /\ hook.inflight[url] > 0
    /\ hook' = fetchSettle(hook, url, ok, truthy)
    /\ UNCHANGED <<users, seq, reg, issued, now, jwtExpiresIn, goals, db, client, res>>

NextFetch ==
    \/ \E url \in UrlProps : UseFetch(url)
    \/ \E url \in Urls, ok \in BOOLEAN, truthy \in BOOLEAN : FetchSettle(url, ok, truthy)

SpecFetch == Init /\ [][NextFetch]_vars

----------------------------------------------------------------------------
(* Properties *)

(* the text register hashed into the stored password of u *)
SubmittedPassword(u) == [u.password EXCEPT !.salts = <<>>]

(* the identity a login call names, and whether it carries its password *)
NamesIdentity(in, u) == u.email = emailSetter(sanitizeString(in.email))
CarriesPassword(in, u) == sanitizePw(in.password) = SubmittedPassword(u)

(* the step is a call of login, of the gate, of a goal service: the call's
   input is the one the outcome records *)
LoginStep == res'.op = "login" /\ Login(res'.in)
AuthenticateStep == res'.op = "authenticate" /\ Authenticate(res'.in)
GoalStep ==
    \/ res'.op = "getGoal" /\ GetGoal(res'.in)
    \/ res'.op = "updateGoal" /\ UpdateGoal(res'.in)
    \/ res'.op = "deleteGoal" /\ DeleteGoal(res'.in)

(* the step is the first part of caller p's register(in): it records an
   outcome for in, or puts p's call in flight *)
RegisterCheckStep(p, in) ==
    /\ (res'.op = "register" /\ res'.in = in) \/ reg'[p] # reg[p]
    /\ RegisterCheck(p, in)

(* C1: for any registered identity, login with the password that was
   submitted to register succeeds and returns a correctly signed token whose
   claims contain that identity's id. *)
C1_LoginAfterRegister ==
    [][LoginStep =>
          \A u \in users :
              (NamesIdentity(res'.in, u) /\ CarriesPassword(res'.in, u))
              => (res'.ok /\ res'.body.token.sig /\ res'.body.token.userId = u.id)]_vars

(* what the gate requires of a request, as the claim lists it *)
GateConditions(header, t, store) ==
    /\ header.present
    /\ header.scheme = "Bearer" /\ header.parts = 2
    /\ header.token.kind = "jwt"
    /\ header.token.sig
    /\ t < header.token.exp
    /\ header.token.userId # 0
    /\ \E u \in store : u.id = header.token.userId

(* C2: the gate calls next() only for a request whose header is exactly
   'Bearer <token>' with a non-empty, correctly signed, unexpired token
   whose userId names a record of the store; for every other request
   next() is not called. *)
C2_GateAdmitsOnlyValid ==
    [][(AuthenticateStep /\ ~GateConditions(res'.in, now, users))
          => (~res'.body.next /\ ~res'.ok)]_vars

(* a request with a token whose signature does not verify was turned away *)
C2_Witness ==
    /\ res.op = "authenticate"
    /\ res.in.scheme = "Bearer" /\ res.in.parts = 2
    /\ res.in.token.kind = "jwt" /\ ~res.in.token.sig
    /\ \E u \in users : u.id = res.in.token.userId
    /\ ~res.body.next
    /\ res.err.code = 401

(* the input passes the validations of register *)
ValidRegisterInput(in) ==
    registerValidate(sanitizeString(in.username), sanitizeString(in.email),
                     sanitizePw(in.password)) = NoErr

(* C3: once a register call with an email has succeeded, every later
   register call with valid input and the same email fails with
   'User with this email already exists' (400), whatever its username, and
   no record is created. *)
C3_SecondRegisterConflicts ==
    [][\A in \in RegisterInputs : \A p \in Procs :
          (/\ RegisterCheckStep(p, in)
           /\ ValidRegisterInput(in)
           /\ \E u \in users : NamesIdentity(in, u))
          => (/\ res' = Result("register", in,
                               Err("", "User with this email already exists", 400, "Bad Request"),
                               NoBody)
              /\ users' = users
              /\ reg' = reg)]_vars

(* a register call was refused as a duplicate although its username differs
   from the one registered with that email *)
C3_Witness ==
    /\ res.op = "register"
    /\ res.err.message = "User with this email already exists"
    /\ \E u \in users : /\ NamesIdentity(res.in, u)
                        /\ u.username # usernameSetter(sanitizeString(res.in.username))

(* C4: when two register calls for the same email both pass the findOne
   pre-check before either saves, the call that saves second fails with the
   same structured Conflict error as a sequential duplicate, and no second
   record is persisted. *)
C4_ConcurrentDuplicateConflicts ==
    [][\A p \in Procs :
          (/\ reg[p].pc = "save"
           /\ \E u \in users : NamesIdentity(reg[p].in, u)
           /\ RegisterSave(p))
          => (/\ res'.err = Err("", "User with this email already exists", 400, "Bad Request")
              /\ users' = users)]_vars

(* no two records share a username, and no two share an email *)
UniqueUsers(store) ==
    \A u \in store : \A v \in store :
        (u # v) => (u.username # v.username /\ u.email # v.email)

(* the document a register call in flight is about to save collides with a
   record on username or on email *)
Collides(in, store) ==
    \E u \in store : \/ u.username = usernameSetter(sanitizeString(in.username))
                     \/ u.email = emailSetter(sanitizeString(in.email))

(* C5: after any interleaving of register calls no two identity records
   share a username and no two share an email, and a register call whose
   record would share either is rejected and persists nothing. *)
C5_UniqueUsernameAndEmail ==
    [][/\ UniqueUsers(users')
       /\ \A p \in Procs :
            (reg[p].pc = "save" /\ Collides(reg[p].in, users) /\ RegisterSave(p))
            => (users' = users /\ ~res'.ok)]_vars

(* a register call was turned away by the store for its username alone *)
C5_Witness ==
    /\ res.op = "register"
    /\ ~res.ok
    /\ res.err.code = 11000
    /\ \E u \in users : u.username = usernameSetter(sanitizeString(res.in.username))
    /\ \A u \in users : ~NamesIdentity(res.in, u)

(* the login names no record, or names one whose stored hash does not
   verify the password *)
UnknownOrMismatch(in, store) ==
    \/ \A u \in store : ~NamesIdentity(in, u)
    \/ \E u \in store : /\ NamesIdentity(in, u)
                        /\ ~bcryptCompare(sanitizePw(in.password), u.password)

(* C6: a login that fails because the email is not registered and a login
   that fails because the stored hash does not verify the password are
   answered alike: 'Invalid login credentials', 404, 'Not Found'. *)
C6_LoginFailuresAlike ==
    [][(/\ LoginStep
        /\ loginValidate(sanitizeString(res'.in.email), sanitizePw(res'.in.password)) = NoErr
        /\ UnknownOrMismatch(res'.in, users))
          => (/\ res'.body = NoBody
              /\ errorResponse(res'.err, "Login failed. Please try again.") =
                    [status |-> 404, message |-> "Invalid login credentials",
                     code |-> 404, statusText |-> "Not Found"])]_vars

(* a login for a registered email was refused for its password *)
C6_Witness ==
    /\ res.op = "login"
    /\ res.err.message = "Invalid login credentials"
    /\ \E u \in users : /\ NamesIdentity(res.in, u)
                        /\ ~CarriesPassword(res.in, u)

(* C7: the value register returns, the user object login returns and the
   req.user the gate attaches have no password field, and no stored
   password equals the text that was submitted. *)
C7_NoPasswordOutbound ==
    /\ (res.op = "register" /\ res.ok) => "password" \notin DOMAIN res.body
    /\ (res.op = "login" /\ res.ok) => "password" \notin DOMAIN res.body.user
    /\ (res.op = "authenticate" /\ res.ok) => "password" \notin DOMAIN res.body.user
    /\ \A u \in users : u.password # SubmittedPassword(u)

(* a login has returned the user object of a stored record *)
C7_Witness ==
    /\ res.op = "login"
    /\ res.ok
    /\ \E u \in users : u.id = res.body.user.id /\ u.password.salts # <<>>

(* the goal a call names exists and belongs to another user than the caller *)
ForeignGoal(in, userStore, store) ==
    /\ \E u \in userStore : u.id = in.userId
    /\ \E g \in store : g.id = in.goalId /\ g.userId # in.userId

(* C8: getGoal, updateGoal and deleteGoal for a goal of another user fail
   with 'Goal not found' (404), return no goal data and leave the goals
   collection unchanged. *)
C8_ForeignGoalNotFound ==
    [][(GoalStep /\ ForeignGoal(res'.in, users, goals))
          => (/\ res'.err = Err("", "Goal not found", 404, "Not Found")
              /\ res'.body = NoBody
              /\ goals' = goals)]_vars

(* the header carries a token login signed, in the right format *)
SignedBearer(header) ==
    /\ header.present
    /\ header.scheme = "Bearer" /\ header.parts = 2
    /\ header.token.kind = "jwt"
    /\ header.token.sig

(* C9: a signed token presented at or after its expiry, a token issued with
   ttl 0 included, is answered with 401 'Authentication failed: Token
   Expired' and next() is not called, even when its identity exists. *)
C9_ExpiredTokenRejected ==
    [][(AuthenticateStep /\ SignedBearer(res'.in) /\ now >= res'.in.token.exp)
          => (/\ ~res'.body.next
              /\ res'.err = Err("", "Authentication failed: Token Expired", 401,
                                "Unauthorized"))]_vars

(* a token issued with ttl 0 for an identity still in the store was refused *)
C9_Witness ==
    /\ jwtExpiresIn = 0
    /\ res.op = "authenticate"
    /\ SignedBearer(res.in)
    /\ \E u \in users : u.id = res.in.token.userId
    /\ res.err.message = "Authentication failed: Token Expired"

(* C10: a request with a signed, unexpired token whose identity record is
   no longer in the store is answered with 401 'Authentication failed:
   User not found'. *)
C10_RemovedUserNotFound ==
    [][(/\ AuthenticateStep
        /\ SignedBearer(res'.in)
        /\ now < res'.in.token.exp
        /\ \A u \in users : u.id # res'.in.token.userId)
          => (/\ ~res'.body.next
              /\ res'.err = Err("", "Authentication failed: User not found", 401,
                                "Unauthorized"))]_vars

(* C11: a token login issued passes the gate at every time before its
   expiry while its identity record is in the store, whatever logins were
   made since and whether or not the client dropped it. *)
C11_NoRevocation ==
    [][(/\ AuthenticateStep
        /\ SignedBearer(res'.in)
        /\ now < res'.in.token.exp
        /\ \E u \in users : u.id = res'.in.token.userId)
          => (res'.ok /\ res'.body.next)]_vars

(* the operations of the services *)
ServiceOps == {"register", "login", "createGoal", "getGoal", "updateGoal", "deleteGoal"}

(* an error value with its three fields and one of the codes of the API *)
StructuredError(err) ==
    /\ err.message # ""
    /\ err.code \in {400, 401, 404, 500}
    /\ err.statusText # ""

(* C12: every failure that reaches the caller of register, login or a goal
   service is a structured error {message, code, statusText} with code 400,
   401, 404 or 500, and the response sent for it has one of these as its
   status. *)
C12_ErrorsStructured ==
    (res.op \in ServiceOps /\ ~res.ok)
    => (/\ StructuredError(res.err)
        /\ errorResponse(res.err, "Registration failed. Please try again.").status
              \in {400, 401, 404, 500})

(* the first check, in the order the claim gives, that a login input fails:
   its message, or "" when the input is valid *)
LoginFirstFailure(in) ==
    IF in.email.core = "" THEN "Email is required"
    ELSE IF in.email.core \notin EmailShaped THEN "Invalid email format"
    ELSE IF in.password.salts = <<>> /\ StrLen(in.password.core) < MinPasswordLen
         THEN "Password must be at least 8 characters long"
    ELSE ""

(* the same for a register input, whose first check is the username *)
RegisterFirstFailure(in) ==
    IF in.username.core = "" THEN "Username is required" ELSE LoginFirstFailure(in)

(* C13: register and login answer an invalid input with a 400 error that
   reports the first failing check only, in the order username empty, email
   empty, email malformed, password shorter than 8 (login: the last three),
   and leave the credential store, the calls in flight and the issued tokens
   unchanged. *)
C13_FirstFailingCheck ==
    [][/\ \A p \in Procs : \A in \in RegisterInputs :
            (RegisterCheckStep(p, in) /\ RegisterFirstFailure(in) # "")
            => (/\ res' = Result("register", in,
                                 Err("", RegisterFirstFailure(in), 400, "Bad Request"), NoBody)
                /\ users' = users
                /\ reg' = reg)
       /\ (LoginStep /\ LoginFirstFailure(res'.in) # "")
            => (/\ res'.err = Err("", LoginFirstFailure(res'.in), 400, "Bad Request")
                /\ res'.body = NoBody
                /\ users' = users
                /\ issued' = issued)]_vars

(* a register call with a malformed email and a short password was answered
   for its email alone *)
C13_Witness ==
    /\ res.op = "register"
    /\ res.in.username.core # ""
    /\ res.in.email.core # "" /\ res.in.email.core \notin EmailShaped
    /\ StrLen(res.in.password.core) < MinPasswordLen
    /\ res.err = Err("", "Invalid email format", 400, "Bad Request")

(* the messages the gate may give for a token that does not verify and is
   not expired *)
InvalidTokenMessages ==
    {"Authentication failed: Invalid token", "jwt malformed", "invalid signature"}

(* the messages the claim allows for a request, by the first check of its
   list that the request fails; the empty set when it fails none *)
GateFirstFailure(header, t, store) ==
    IF ~header.present THEN {"Authentication failed: No token provided"}
    ELSE IF header.parts # 2 \/ header.scheme # "Bearer"
    THEN {"Authentication failed: Invalid token format"}
    ELSE IF header.token.kind = "empty" THEN {"Authentication failed: Token is empty"}
    ELSE IF header.token.kind # "jwt" \/ ~header.token.sig THEN InvalidTokenMessages
    ELSE IF t >= header.token.exp THEN {"Authentication failed: Token Expired"}
    ELSE IF header.token.userId = 0 THEN {"Authentication failed: Invalid token payload"}
    ELSE IF \A u \in store : u.id # header.token.userId
    THEN {"Authentication failed: User not found"}
    ELSE {}

(* C14: the gate evaluates its checks in a fixed order and the first that
   fails determines the 401 message: no header, wrong format, empty token,
   verification failure (expired or invalid), no userId in the claims,
   userId not in the store. *)
C14_GateMessageOrder ==
    [][(AuthenticateStep /\ GateFirstFailure(res'.in, now, users) # {})
          => (/\ ~res'.body.next
              /\ res'.err.code = 401
              /\ res'.err.statusText = "Unauthorized"
              /\ res'.err.message \in GateFirstFailure(res'.in, now, users))]_vars

(* the step is a call of updateGoal *)
UpdateStep == res'.op = "updateGoal" /\ UpdateGoal(res'.in)

(* the caller exists and the goal the call names is the caller's *)
OwnGoal(in, userStore, store) ==
    /\ \E u \in userStore : u.id = in.userId
    /\ \E g \in store : g.id = in.goalId /\ g.userId = in.userId

(* every field the call supplies is valid by itself *)
SuppliedFieldsValid(in, t) ==
    /\ StrLen(in.title.core) <= TitleMaxLen
    /\ StrLen(in.description.core) <= DescriptionMaxLen
    /\ in.targetDate = 0 \/ in.targetDate > t
    /\ ~in.progress.isNumber \/ (in.progress.val >= 0 /\ in.progress.val <= 100)

(* the goal with exactly the supplied fields replaced *)
ExpectedUpdate(g, in) ==
    [g EXCEPT !.title = IF in.title.core # "" THEN sanitizeString(in.title) ELSE @,
              !.description = IF in.description.core # ""
                              THEN sanitizeString(in.description) ELSE @,
              !.targetDate = IF in.targetDate # 0 THEN in.targetDate ELSE @,
              !.progress = IF in.progress.isNumber THEN in.progress.val ELSE @]

(* C15: updateGoal on the caller's own goal with any subset of the fields
   title, description, targetDate, progress, each valid by itself, succeeds
   with the updated goal, changes exactly the supplied fields and leaves the
   others as they were. *)
C15_PartialUpdate ==
    [][(/\ UpdateStep
        /\ OwnGoal(res'.in, users, goals)
        /\ SuppliedFieldsValid(res'.in, now))
          => \A g \in findGoal(res'.in.goalId, res'.in.userId, goals) :
                /\ res'.ok
                /\ res'.body = ExpectedUpdate(g, res'.in)
                /\ goals' = (goals \ {g}) \cup {ExpectedUpdate(g, res'.in)}]_vars

(* the step is a call of createGoal *)
CreateStep == res'.op = "createGoal" /\ CreateGoal(res'.in)

(* C16: the credential store is written only by register: login, the gate
   and the four goal operations leave every identity record as it was, and
   a step that changes the store is a saving register call that keeps every
   record there was. *)
C16_OnlyRegisterWrites ==
    [][/\ (LoginStep \/ AuthenticateStep \/ GoalStep \/ CreateStep) => users' = users
       /\ (users' # users)
            => (/\ users \subseteq users'
                /\ \E p \in Procs : reg[p].pc = "save" /\ RegisterSave(p))]_vars

(* register, login and the gate have all acted on a store that holds a
   record *)
C16_Witness ==
    /\ users # {}
    /\ issued # {}
    /\ res.op = "authenticate"
    /\ \E u \in users : u.id = res.in.token.userId

(* C17: the email in the value register returns is the lowercased, trimmed
   form of the submitted email and is the email of the record it stored,
   also for an input in mixed case or with surrounding whitespace. *)
C17_ReturnedEmailNormalised ==
    [][\A p \in Procs :
          (reg[p].pc = "save" /\ RegisterSave(p) /\ res'.ok)
          => (/\ res'.body.email = Txt(reg[p].in.email.core, FALSE, FALSE)
              /\ \E u \in users' \ users :
                    u.id = res'.body.id /\ u.email = res'.body.email)]_vars

(* a register call with an email in mixed case has succeeded *)
C17_Witness ==
    /\ res.op = "register"
    /\ res.ok
    /\ res.in.email.up
    /\ ~res.body.email.up
    /\ \E u \in users : u.id = res.body.id /\ u.email = res.body.email

----------------------------------------------------------------------------
(* connectDB *)

\* the handles connectDB has handed to its callers
ReturnedHandles == {db.returned[c] : c \in DbCallers} \ {NoConnection}

\* C18: as long as no connection error has been detected, any number of
\* connectDB calls, overlapping ones included, establish at most one
\* connection and hand every caller the same handle.
C18_Singleton ==
    db.failed = {} =>
        /\ Cardinality(db.established) <= 1
        /\ Cardinality(ReturnedHandles) <= 1

\* a connectDB call by c that returns the cached handle without connecting
ReturnsCached(c) ==
    /\ db.pc[c] = "idle"
    /\ db'.pc[c] = "idle"
    /\ db'.returned[c] # db.returned[c]

\* C19: a connectDB call made after a connection error was detected never
\* returns the failed handle, and a connect that fails ends the process
\* without returning a handle to the caller.
C19_ReconnectAfterError ==
    [][/\ \A c \in DbCallers :
            ReturnsCached(c) => db'.returned[c] \notin db.failed
       /\ \A c \in DbCallers :
            (db'.exited /\ ~db.exited /\ db.pc[c] = "awaiting")
                => (db'.returned[c] = db.returned[c] /\ db'.pc[c] = "awaiting")]_vars

----------------------------------------------------------------------------
(* updateGoal with progress 0 *)

(* C20: updateGoal with progress 0 on the caller's own goal whose stored
   progress is non-zero, every other supplied field valid, succeeds and
   leaves the stored progress as it was. *)
C20_ProgressZeroIgnored ==
    [][(/\ UpdateStep
        /\ res'.in.progress = Num(0)
        /\ OwnGoal(res'.in, users, goals)
        /\ SuppliedFieldsValid(res'.in, now))
          => \A g \in findGoal(res'.in.goalId, res'.in.userId, goals) :
                g.progress # 0 =>
                    /\ res'.ok
                    /\ \E h \in goals' : h.id = g.id /\ h.progress = g.progress]_vars

----------------------------------------------------------------------------
(* the identity the gate attaches *)

(* C21: for a signed, unexpired token whose userId names a record in the
   store, the gate attaches req.user with the userId and the email of that
   stored record. *)
C21_IdentityFromStore ==
    [][(/\ AuthenticateStep
        /\ SignedBearer(res'.in)
        /\ now < res'.in.token.exp)
          => \A u \in findById(res'.in.token.userId, users) :
                res'.body.user = [userId |-> u.id, email |-> u.email]]_vars

----------------------------------------------------------------------------
(* the owner of a goal *)

(* C22: createGoal with valid fields for an identity that is in the store
   saves a goal whose userId is that identity, and no step changes the
   userId of a goal already in the store. *)
C22_GoalOwnerFixed ==
    [][/\ (/\ CreateStep
           /\ \E u \in users : res'.in = CreateCall(u.id, CompleteFields))
             => \E g \in goals' \ goals : g.userId = res'.in.userId
       /\ \A g \in goals : \A h \in goals' : h.id = g.id => h.userId = g.userId]_vars

----------------------------------------------------------------------------
(* the bounds of a stored goal *)

GoalInBounds(g) ==
    /\ g.progress >= 0 /\ g.progress <= 100
    /\ g.title.core # "" /\ StrLen(g.title.core) <= TitleMaxLen

(* the fields of a call break the bounds on progress or on the title *)
BreaksBounds(in) ==
    \/ in.progress.isNumber /\ (in.progress.val < 0 \/ in.progress.val > 100)
    \/ StrLen(in.title.core) > TitleMaxLen

(* C23: every stored goal has progress within 0..100 and a non-empty title
   of at most 100 characters, and a createGoal or updateGoal call with
   well-formed ids whose fields break these bounds fails with code 400 and
   leaves the store as it was. *)
C23_GoalBounds ==
    [][/\ \A g \in goals' : GoalInBounds(g)
       /\ ((CreateStep \/ UpdateStep) /\ res'.in.userId # 0 /\ BreaksBounds(res'.in))
            => (~res'.ok /\ res'.err.code = 400 /\ goals' = goals)]_vars

----------------------------------------------------------------------------
(* deleteGoal *)

DeleteStep == res'.op = "deleteGoal" /\ DeleteGoal(res'.in)

(* C24: deleteGoal on the caller's own goal succeeds and removes that goal
   and no other, and a getGoal, deleteGoal or updateGoal (its supplied
   fields valid) by a stored user for a goalId that is not in the store
   fails with 'Goal not found' (404). *)
C24_DeletedGoalGone ==
    [][/\ (DeleteStep /\ OwnGoal(res'.in, users, goals))
            => (/\ res'.ok
                /\ goals' = goals \ findGoal(res'.in.goalId, res'.in.userId, goals))
       /\ (/\ GoalStep
           /\ res'.in.goalId # 0
           /\ \E u \in users : u.id = res'.in.userId
           /\ \A g \in goals : g.id # res'.in.goalId
           /\ res'.op = "updateGoal" => SuppliedFieldsValid(res'.in, now))
            => (res'.err = NotFound("Goal not found") /\ goals' = goals)]_vars

----------------------------------------------------------------------------
(* the gate answers once *)

(* C25: every run of the gate either calls next() and sends nothing, or
   sends one response and does not call next(); the response has status
   401, also when an exception is caught inside the gate. *)
C25_GateAnswersOnce ==
    res.op = "authenticate" =>
        /\ res.body.next = (res.body.err = NoErr)
        /\ ~res.body.next =>
              /\ res.body.err.code = 401
              /\ res.body.err.statusText = "Unauthorized"

(* the gate has answered an exception that was not raised by jwt.verify *)
C25_Witness ==
    /\ res.op = "authenticate"
    /\ ~res.body.next
    /\ res.body.err.message = TypeError.message

----------------------------------------------------------------------------
(* the token in localStorage *)

(* the browser did something new in this step, and it was op *)
ClientDid(op) == client'.last # client.last /\ client'.last.op = op

(* the Authorization header a request must carry given the stored token *)
BearerOf(token) ==
    [present |-> token # NoToken,
     scheme |-> IF token # NoToken THEN "Bearer" ELSE "",
     token |-> token]

(* C26: localStorage gets a token only from a successful login, which stores
   the token the response carried; it loses it only by logout or a 401
   response, each of which removes it; and every request sent carries
   'Bearer <token>' of the token stored at that moment, or no Authorization
   header when none is stored. *)
C26_TokenLifetime ==
    [][/\ (client'.token # client.token /\ client'.token # NoToken)
            => (client'.last.op = "loginSuccess" /\ client'.last.token = client'.token)
       /\ ClientDid("loginSuccess") => client'.token = client'.last.token
       /\ (client.token # NoToken /\ client'.token = NoToken)
            => \/ client'.last.op = "logout"
               \/ client'.last.op = "response" /\ client'.last.status = 401
       /\ (ClientDid("logout") \/ (ClientDid("response") /\ client'.last.status = 401))
            => client'.token = NoToken
       /\ ClientDid("send") => client'.last.auth = BearerOf(client.token)]_vars

(* after a login had stored a token and a logout or a 401 removed it, a
   request went out without an Authorization header *)
C26_Witness ==
    /\ client.last.op = "send"
    /\ ~client.last.auth.present
    /\ client.logins > 0
    /\ client.token = NoToken

----------------------------------------------------------------------------
(* the auth context *)

(* C27: a login through the useAuth hook sends the login request; when its
   response is a success with a user, the context has isAuthenticated = true
   and user set; and in every state isAuthenticated is true exactly when
   user is set. *)
C27_AuthState ==
    [][/\ HookLogin([email |-> TRUE, password |-> TRUE])
            => \E r \in client'.pending : r.kind = "login" /\ r.hook
       /\ (ClientDid("loginSuccess") /\ \E r \in client.pending \ client'.pending : r.hook)
            => (client'.isAuthenticated /\ client'.user # NoUser)
       /\ client'.isAuthenticated = (client'.user # NoUser)]_vars

----------------------------------------------------------------------------
(* useFetch *)

(* the hook did something new in this step, and it was op *)
HookDid(op) == hook'.last # hook.last /\ hook'.last.op = op

(* C28: when the url changes to one that this hook instance has fetched
   successfully, the hook shows the stored result with loading = false and
   issues no request; a failed fetch leaves the cache as it was, and a
   change to a url with no stored result issues a request. *)
C28_CachePerUrl ==
    [][/\ \A u \in Urls :
            (HookDid("effect") /\ hook'.url = u /\ ~hook.cache[u].none)
                => /\ hook'.inflight = hook.inflight
                   /\ hook'.data = hook.cache[u]
                   /\ ~hook'.loading
       /\ HookDid("failed") => hook'.cache = hook.cache
       /\ \A u \in Urls :
            (HookDid("effect") /\ hook'.url = u /\ hook.cache[u].none)
                => hook'.inflight[u] = hook.inflight[u] + 1]_vars

(* C29: a response, or a failure, of a request for a url that is no longer
   the hook's current url changes neither data nor error. *)
C29_LateResponseIgnored ==
    [][(/\ HookDid("settled") \/ HookDid("failed")
        /\ hook.url \in Urls
        /\ hook'.last.url # hook.url)
          => (hook'.data = hook.data /\ hook'.error = hook.error)]_vars

----------------------------------------------------------------------------
(* a username the store refuses *)

(* the step is the second half of a register call by p *)
RegisterSaveStep(p) == reg[p].pc = "save" /\ reg'[p] = Idle /\ RegisterSave(p)

(* the username rule of the store: 3 to 50 characters, letters, digits and
   underscore only *)
UsernameRuleOk(t) ==
    /\ StrLen(t.core) >= 3 /\ StrLen(t.core) <= 50
    /\ t.core \in WordChars

(* C30: a register call with a non-empty username that breaks the store's
   username rule is not stopped by the validation of the service; the store
   rejects it, no record is saved, and the caller gets an error with code
   500 'Internal Server Error'. *)
C30_BadUsernameIs500 ==
    [][\A p \in Procs :
         (RegisterSaveStep(p) /\ ~UsernameRuleOk(reg[p].in.username))
            => /\ ValidRegisterInput(reg[p].in)
               /\ users' = users
               /\ ~res'.ok
               /\ res'.err.code = 500
               /\ res'.err.statusText = "Internal Server Error"]_vars

(* a register call with a username of two characters, and one with a space
   in it, has come back with 500 *)
C30_Witness ==
    /\ res.op = "register"
    /\ res.in.username.core \in {"al", "bad name"}
    /\ res.err.code = 500
    /\ users = {}
====
